---- MODULE Spec2Model ----
(***************************************************************************)
(* Heatmap and WeightedHeatmap layers of gmaps (src/gmaps/heatmap.py).     *)
(*                                                                         *)
(* Two layer objects are modelled, one of each class: "h" is a Heatmap,    *)
(* "w" is a WeightedHeatmap.  Every field is a trait; an assignment to a   *)
(* trait first validates the proposed value (the trait's own validation,   *)
(* then the @validate hook), then stores it, and then, only when the       *)
(* stored value differs from the previous one, runs the @observe hook.     *)
(*                                                                         *)
(* Angles are integers in tenths of a degree (46.1 degrees is 461), and    *)
(* opacity is in tenths (0.6 is 6).  An optional value is a sequence of    *)
(* length 0 (None) or 1.                                                   *)
(***************************************************************************)
EXTENDS Integers, Sequences, FiniteSets

VARIABLES data, data_bounds, max_intensity, point_radius, dissipating,
          opacity, gradient, raised

vars == <<data, data_bounds, max_intensity, point_radius, dissipating,
          opacity, gradient, raised>>

options == <<max_intensity, point_radius, dissipating, opacity, gradient>>

\* The two layer objects: a Heatmap and a WeightedHeatmap.
Layers == {"h", "w"}

None == <<>>

Some(x) == <<x>>

----------------------------------------------------------------------------
\* Bounds of the model.

\* Longest data sequence assigned in Spec.
MaxLenAll == 1

\* Longest data sequence assigned in SpecData.
MaxLen == 2

\* Longest data sequence assigned in SpecWeighted.
MaxLenWeighted == 2

\* Longest data sequence assigned in SpecBounds and SpecAntimeridian.
MaxLenBounds == 3

----------------------------------------------------------------------------
\* Program constants.

\* Latitudes lie between -90 and +90 degrees.
LatMax == 900

\* Longitudes lie between -180 and +180 degrees.
LonMax == 1800

\* opacity = Float(default_value=0.6, min=0.0, max=1.0)
OpacityDefault == 6

OpacityMin == 0

OpacityMax == 10

----------------------------------------------------------------------------
\* Helpers on sets and sequences.

Range(s) == {s[k] : k \in DOMAIN s}

SetMin(S) == CHOOSE x \in S : \A y \in S : x <= y

SetMax(S) == CHOOSE x \in S : \A y \in S : x >= y

SeqsUpTo(S, n) == UNION {[1..k -> S] : k \in 0..n}

----------------------------------------------------------------------------
\* gmaps.geotraitlets.is_valid_point: a (latitude, longitude) pair in range.
is_valid_point(pt) ==
    /\ -LatMax <= pt[1] /\ pt[1] <= LatMax
    /\ -LonMax <= pt[2] /\ pt[2] <= LonMax

\* The value that stands for "no bound" in the result the bounds helpers
\* give for an empty sequence, when they give one: no angle has it.
NoBound == 9999

\* gmaps.bounds.latitude_bounds: minimum and maximum latitude.
latitude_bounds(latitudes) ==
    IF latitudes = <<>> THEN <<NoBound, NoBound>>
    ELSE <<SetMin(Range(latitudes)), SetMax(Range(latitudes))>>

\* The gap that follows longitude a among the longitudes of L, going east:
\* to the next larger one, or from the largest round the antimeridian to
\* the smallest.
GapAfter(L, a) ==
    IF a = SetMax(L) THEN SetMin(L) + 2 * LonMax - a
    ELSE SetMin({b \in L : b > a}) - a

\* The longitude that follows a among L, going east.
NextAfter(L, a) ==
    IF a = SetMax(L) THEN SetMin(L) ELSE SetMin({b \in L : b > a})

\* gmaps.bounds.longitude_bounds: the circular interval of least width that
\* holds every longitude, found by cutting the circle at the widest gap
\* between neighbouring longitudes (the first such gap in sorted order).
longitude_bounds(longitudes) ==
    LET L == Range(longitudes)
        widest == SetMax({GapAfter(L, a) : a \in L})
        cut == SetMin({a \in L : GapAfter(L, a) = widest})
    IN  IF longitudes = <<>> THEN <<NoBound, NoBound>>
        ELSE <<NextAfter(L, cut), cut>>

\* _HeatmapOptionsMixin._latitude_bounds
mixin_latitude_bounds(latitudes) == latitude_bounds(latitudes)

\* A slip in _longitude_bounds: the least and greatest raw longitude.
longitude_min_max(longitudes) ==
    IF longitudes = <<>>
    THEN <<NoBound, NoBound>>
    ELSE <<SetMin(Range(longitudes)), SetMax(Range(longitudes))>>

\* _HeatmapOptionsMixin._longitude_bounds
mixin_longitude_bounds(longitudes) == longitude_bounds(longitudes)

\* A slip in set_bounds: the corners built as (min, max) of each axis.
set_bounds_by_axis(d) ==
    LET latitudes  == [k \in DOMAIN d |-> d[k][1]]
        longitudes == [k \in DOMAIN d |-> d[k][2]]
        lat == latitude_bounds(latitudes)
        lon == longitude_bounds(longitudes)
    IN  << <<lat[1], lat[2]>>, <<lon[1], lon[2]>> >>

\* _HeatmapOptionsMixin.set_bounds: the value it stores in data_bounds.
set_bounds(d) ==
    LET latitudes  == [k \in DOMAIN d |-> d[k][1]]
        longitudes == [k \in DOMAIN d |-> d[k][2]]
        lat == mixin_latitude_bounds(latitudes)
        lon == mixin_longitude_bounds(longitudes)
    IN  << <<lat[1], lon[1]>>, <<lat[2], lon[2]>> >>

----------------------------------------------------------------------------
\* A slip in Heatmap._validate_data: only the first point is checked.
Heatmap_validate_first_point(value) ==
    IF value # <<>> /\ ~is_valid_point(value[1])
    THEN "InvalidPointException"
    ELSE "none"

\* Heatmap._validate_data: the exception it raises, "none" when it returns
\* the proposed value.
Heatmap_validate_data(value) ==
    IF \E k \in DOMAIN value : ~is_valid_point(value[k])
    THEN "InvalidPointException"
    ELSE "none"

\* A slip in WeightedHeatmap._validate_data: point[::2], the latitude and
\* the weight, is checked in place of point[:2].
WeightedHeatmap_validate_lat_weight(value) ==
    IF \E k \in DOMAIN value : ~is_valid_point(<<value[k][1], value[k][3]>>)
    THEN "InvalidPointException"
    ELSE "none"

\* WeightedHeatmap._validate_data: only point[:2] is looked at; the weight
\* is not checked.
WeightedHeatmap_validate_data(value) ==
    IF \E k \in DOMAIN value : ~is_valid_point(SubSeq(value[k], 1, 2))
    THEN "InvalidPointException"
    ELSE "none"

validate_data(i, value) ==
    IF i = "h" THEN Heatmap_validate_data(value)
    ELSE WeightedHeatmap_validate_data(value)

\* A slip in _calc_bounds: the observer stores nothing.
calc_bounds_stores_nothing(i, new) ==
    /\ raised' = "none"
    /\ UNCHANGED data_bounds

\* Heatmap._calc_bounds / WeightedHeatmap._calc_bounds, the observer of
\* data: self.set_bounds(change["new"]).  On an empty sequence the bounds
\* helpers have no defined result: either they raise, and data_bounds keeps
\* its value while data is already replaced, or they yield "no bound".
calc_bounds(i, new) ==
    \/ /\ new = <<>>
       /\ raised' = "ValueError"
       /\ UNCHANGED data_bounds
    \/ /\ raised' = "none"
       /\ data_bounds' = [data_bounds EXCEPT ![i] = set_bounds(new)]

\* data as a trait whose observer runs on every assignment, also of the
\* value the trait already holds.
SetData_always_observed(i, value) ==
    /\ UNCHANGED options
    /\ IF validate_data(i, value) # "none"
       THEN /\ raised' = validate_data(i, value)
            /\ UNCHANGED <<data, data_bounds>>
       ELSE /\ data' = [data EXCEPT ![i] = value]
            /\ calc_bounds(i, value)

\* data as a list shared by all layers: an assignment lands on each.
SetData_shared(i, value) ==
    /\ UNCHANGED options
    /\ IF validate_data(i, value) # "none"
       THEN /\ raised' = validate_data(i, value)
            /\ UNCHANGED <<data, data_bounds>>
       ELSE IF value = data[i]
       THEN /\ raised' = "none"
            /\ UNCHANGED <<data, data_bounds>>
       ELSE /\ data' = [j \in Layers |-> value]
            /\ calc_bounds(i, value)

\* layer.data = value
SetData(i, value) ==
    /\ UNCHANGED options
    /\ IF validate_data(i, value) # "none"
       THEN /\ raised' = validate_data(i, value)
            /\ UNCHANGED <<data, data_bounds>>
       ELSE IF value = data[i]
       THEN /\ raised' = "none"
            /\ UNCHANGED <<data, data_bounds>>
       ELSE /\ data' = [data EXCEPT ![i] = value]
            /\ calc_bounds(i, value)

\* layer.data_bounds = value: a plain List trait, stored as given.
SetDataBounds(i, value) ==
    /\ data_bounds' = [data_bounds EXCEPT ![i] = value]
    /\ raised' = "none"
    /\ UNCHANGED <<data, options>>

----------------------------------------------------------------------------
\* Float(...).validate: None passes when allow_none; a value below min or
\* above max raises TraitError.  lo and hi are optional.
Float_validate(allow_none, lo, hi, value) ==
    IF value = None
    THEN IF allow_none THEN "none" ELSE "TraitError"
    ELSE IF lo # None /\ value[1] < lo[1] THEN "TraitError"
    ELSE IF hi # None /\ value[1] > hi[1] THEN "TraitError"
    ELSE "none"

\* max_intensity = Float(default_value=None, allow_none=True)
max_intensity_validate(value) == Float_validate(TRUE, None, None, value)

\* point_radius = Float(default_value=None, allow_none=True)
point_radius_validate(value) == Float_validate(TRUE, None, None, value)

\* opacity = Float(default_value=0.6, min=0.0, max=1.0)
opacity_validate(value) ==
    Float_validate(FALSE, Some(OpacityMin), Some(OpacityMax), value)

\* gradient = List(trait=ColorAlpha(), allow_none=True, minlen=1)
gradient_validate(value) ==
    IF value = None THEN "none"
    ELSE IF Len(value[1]) < 1 THEN "TraitError"
    ELSE "none"

\* layer.max_intensity = value
SetMaxIntensity(i, value) ==
    /\ raised' = max_intensity_validate(value)
    /\ max_intensity' = IF max_intensity_validate(value) = "none"
                        THEN [max_intensity EXCEPT ![i] = value]
                        ELSE max_intensity
    /\ UNCHANGED <<data, data_bounds, point_radius, dissipating, opacity,
                   gradient>>

\* layer.point_radius = value
SetPointRadius(i, value) ==
    /\ raised' = point_radius_validate(value)
    /\ point_radius' = IF point_radius_validate(value) = "none"
                       THEN [point_radius EXCEPT ![i] = value]
                       ELSE point_radius
    /\ UNCHANGED <<data, data_bounds, max_intensity, dissipating, opacity,
                   gradient>>

\* layer.dissipating = value
SetDissipating(i, value) ==
    /\ raised' = "none"
    /\ dissipating' = [dissipating EXCEPT ![i] = value]
    /\ UNCHANGED <<data, data_bounds, max_intensity, point_radius, opacity,
                   gradient>>

\* opacity as a trait that clamps into [min, max] in place of rejecting.
SetOpacity_clamped(i, value) ==
    /\ raised' = IF value = None THEN "TraitError" ELSE "none"
    /\ opacity' = IF value = None THEN opacity
                  ELSE IF value[1] < OpacityMin
                  THEN [opacity EXCEPT ![i] = OpacityMin]
                  ELSE IF value[1] > OpacityMax
                  THEN [opacity EXCEPT ![i] = OpacityMax]
                  ELSE [opacity EXCEPT ![i] = value[1]]
    /\ UNCHANGED <<data, data_bounds, max_intensity, point_radius,
                   dissipating, gradient>>

\* layer.opacity = value
SetOpacity(i, value) ==
    /\ raised' = opacity_validate(value)
    /\ opacity' = IF opacity_validate(value) = "none"
                  THEN [opacity EXCEPT ![i] = value[1]]
                  ELSE opacity
    /\ UNCHANGED <<data, data_bounds, max_intensity, point_radius,
                   dissipating, gradient>>

\* layer.gradient = value
SetGradient(i, value) ==
    /\ raised' = gradient_validate(value)
    /\ gradient' = IF gradient_validate(value) = "none"
                   THEN [gradient EXCEPT ![i] = value]
                   ELSE gradient
    /\ UNCHANGED <<data, data_bounds, max_intensity, point_radius,
                   dissipating, opacity>>

----------------------------------------------------------------------------
\* A freshly constructed pair of layers: every trait at its default.
Init ==
    /\ data = [i \in Layers |-> <<>>]
    /\ data_bounds = [i \in Layers |-> <<>>]
    /\ max_intensity = [i \in Layers |-> None]
    /\ point_radius = [i \in Layers |-> None]
    /\ dissipating = [i \in Layers |-> TRUE]
    /\ opacity = [i \in Layers |-> OpacityDefault]
    /\ gradient = [i \in Layers |-> None]
    /\ raised = "none"

----------------------------------------------------------------------------
\* Values the caller assigns.  A point at 46.1 N 5.2 E, and one whose
\* latitude 90.1 is out of range.
HeatPoints == {<<461, 52>>, <<901, 52>>}

\* A triple in range, and one whose longitude 180.1 is out of range.
WeightedPoints == {<<461, 52, 5>>, <<461, 1801, 5>>}

\* Triples for SpecWeighted: one point with weights 0.5, 0.2 and -1, and
\* a triple whose longitude is out of range.
WeightPoints ==
    {<<461, 52, 5>>, <<461, 52, 2>>, <<461, 52, -1>>, <<461, 1801, 5>>}

\* Points in range for SpecBounds: the three of the class's example, and
\* one at 179 W.
BoundsPoints == {<<461, 52>>, <<462, 53>>, <<463, 54>>, <<0, -1790>>}

\* Points in range for SpecAntimeridian: 179 E and 179 W, on either side
\* of the antimeridian, one on the antimeridian and one far from it.
AntimeridianPoints == {<<0, 1790>>, <<0, -1790>>, <<-900, 1800>>, <<10, 0>>}

BoundsInputs == {<< <<0, 0>>, <<10, 10>> >>}

MaxIntensityInputs == {None, Some(-1), Some(2)}

PointRadiusInputs == {None, Some(3)}

OpacityInputs == {Some(-1), Some(10), Some(11)}

GradientInputs == {None, Some(<<>>), Some(<<"white", "gray">>)}

HeatInputsAll == SeqsUpTo(HeatPoints, MaxLenAll)

WeightedInputsAll == SeqsUpTo(WeightedPoints, MaxLenAll)

DataInputsAll(i) == IF i = "h" THEN HeatInputsAll ELSE WeightedInputsAll

HeatInputs == SeqsUpTo(HeatPoints, MaxLen)

WeightedInputs == SeqsUpTo(WeightedPoints, MaxLen)

DataInputs(i) == IF i = "h" THEN HeatInputs ELSE WeightedInputs

WeightInputs == SeqsUpTo(WeightPoints, MaxLenWeighted)

\* The sequences of points in range assigned in SpecBounds, and beside
\* them one sequence that is rejected.
InRangeInputs == SeqsUpTo(BoundsPoints, MaxLenBounds)

DataInputsBounds == InRangeInputs \cup {<< <<901, 52>> >>}

AntimeridianInputs == SeqsUpTo(AntimeridianPoints, MaxLenBounds)

\* Every operation on the Heatmap, and the data operations on the
\* WeightedHeatmap beside it.
Next ==
    \/ \E i \in Layers : \E v \in DataInputsAll(i) : SetData(i, v)
    \/ \E i \in Layers : \E v \in BoundsInputs : SetDataBounds(i, v)
    \/ \E v \in MaxIntensityInputs : SetMaxIntensity("h", v)
    \/ \E v \in PointRadiusInputs : SetPointRadius("h", v)
    \/ \E v \in BOOLEAN : SetDissipating("h", v)
    \/ \E v \in OpacityInputs : SetOpacity("h", v)
    \/ \E v \in GradientInputs : SetGradient("h", v)

Spec == Init /\ [][Next]_vars

\* The data operations on both layers, with longer sequences.
NextData ==
    \/ \E i \in Layers : \E v \in DataInputs(i) : SetData(i, v)
    \/ \E i \in Layers : \E v \in BoundsInputs : SetDataBounds(i, v)

SpecData == Init /\ [][NextData]_vars

\* The operations on the WeightedHeatmap that bear on weights, with a
\* choice of weights.
NextWeighted ==
    \/ \E v \in WeightInputs : SetData("w", v)
    \/ \E v \in BoundsInputs : SetDataBounds("w", v)
    \/ \E v \in MaxIntensityInputs : SetMaxIntensity("w", v)

SpecWeighted == Init /\ [][NextWeighted]_vars

\* The data operations on the Heatmap, with a choice of points in range.
NextBounds ==
    \/ \E v \in DataInputsBounds : SetData("h", v)
    \/ \E v \in BoundsInputs : SetDataBounds("h", v)

SpecBounds == Init /\ [][NextBounds]_vars

\* The data operations on the Heatmap, with points about the antimeridian.
NextAntimeridian ==
    \/ \E v \in AntimeridianInputs : SetData("h", v)
    \/ \E v \in BoundsInputs : SetDataBounds("h", v)

SpecAntimeridian == Init /\ [][NextAntimeridian]_vars

----------------------------------------------------------------------------
\* What the claims speak of, stated apart from the code's own helpers.

\* The point (a pair, or the first two components of a triple) is out of
\* range: latitude outside [-90, 90] or longitude outside [-180, 180].
OutOfRange(pt) ==
    pt[1] < -900 \/ pt[1] > 900 \/ pt[2] < -1800 \/ pt[2] > 1800

HasOutOfRange(v) == \E k \in DOMAIN v : OutOfRange(v[k])

Latitudes(d) == {d[k][1] : k \in DOMAIN d}

Longitudes(d) == {d[k][2] : k \in DOMAIN d}

\* Width of the span that runs east from lo to hi, in tenths of a degree.
LonWidth(lo, hi) == (hi - lo) % 3600

\* The span that runs east from lo to hi holds every longitude of L.
Encloses(lo, hi, L) == \A l \in L : (l - lo) % 3600 <= LonWidth(lo, hi)

\* No span between two longitudes of L that holds all of L is narrower.
SmallestSpan(lo, hi, L) ==
    /\ lo \in L /\ hi \in L
    /\ Encloses(lo, hi, L)
    /\ \A a \in L, b \in L : Encloses(a, b, L) => LonWidth(lo, hi) <= LonWidth(a, b)

\* b is ((minLat, minLon), (maxLat, maxLon)) for the points of d.
ExactBounds(b, d) ==
    /\ Len(b) = 2
    /\ \A x \in Latitudes(d) : b[1][1] <= x /\ x <= b[2][1]
    /\ b[1][1] \in Latitudes(d) /\ b[2][1] \in Latitudes(d)
    /\ SmallestSpan(b[1][2], b[2][2], Longitudes(d))

----------------------------------------------------------------------------
\* The sequences of SpecData with a point out of range.
OutOfRangeHeatInputs == {v \in HeatInputs : HasOutOfRange(v)}

OutOfRangeWeightedInputs == {v \in WeightedInputs : HasOutOfRange(v)}

OutOfRangeInputs(i) ==
    IF i = "h" THEN OutOfRangeHeatInputs ELSE OutOfRangeWeightedInputs

\* C1: assigning to data a sequence with a point out of range fails with
\* the invalid-point error and leaves data and data_bounds as they were,
\* for the Heatmap and for the WeightedHeatmap.
C1_InvalidDataRejected ==
    [][\A i \in Layers : \A v \in OutOfRangeInputs(i) :
          SetData(i, v) =>
              /\ raised' = "InvalidPointException"
              /\ data' = data
              /\ data_bounds' = data_bounds]_vars

\* A rejected assignment after both layers were given data.
C1_Witness ==
    /\ raised = "InvalidPointException"
    /\ data["h"] # <<>> /\ data_bounds["h"] # <<>>
    /\ data["w"] # <<>> /\ data_bounds["w"] # <<>>

\* C3: every triple held in the WeightedHeatmap's data has weight >= 0,
\* a sequence with a negative weight being rejected.
C3_WeightsNonNegative ==
    \A k \in DOMAIN data["w"] : data["w"][k][3] >= 0

\* C4: max_intensity is None or strictly greater than 0.
C4_MaxIntensityPositive ==
    \A i \in Layers : max_intensity[i] = None \/ max_intensity[i][1] > 0

----------------------------------------------------------------------------
\* data_bounds of layer i is what set_bounds computes from its data, a
\* layer without data having the empty data_bounds it is constructed with.
BoundsCurrent(i) ==
    data_bounds[i] = IF data[i] = <<>> THEN <<>> ELSE set_bounds(data[i])

\* C2, as claimed: after any sequence of operations, direct assignments to
\* data_bounds and assignments of an empty data included, data_bounds is
\* the bounds computed from the current data.
C2_BoundsNeverStale == \A i \in Layers : BoundsCurrent(i)

\* C2, amended: every operation other than a direct assignment to
\* data_bounds keeps data_bounds equal to the bounds computed from the
\* current data, whenever the data it leaves is not empty.  (A step that
\* changes neither field of the layer keeps it so, and is passed over.)
C2_BoundsFollowData ==
    [][\A i \in Layers :
          (/\ <<data[i], data_bounds[i]>>' # <<data[i], data_bounds[i]>>
           /\ ~ \E b \in BoundsInputs : SetDataBounds(i, b)
           /\ data[i] # <<>> => BoundsCurrent(i))
          => (data'[i] # <<>> => BoundsCurrent(i)')]_vars

\* The Heatmap holds data and the bounds computed from it after an option
\* assignment was accepted and a data assignment rejected.
C2_Witness ==
    /\ data["h"] # <<>> /\ BoundsCurrent("h")
    /\ dissipating["h"] = FALSE
    /\ raised = "InvalidPointException"

\* C7: opacity lies in [0, 1] in every state and is 0.6 on a fresh layer;
\* assigning a value below 0 or above 1 raises an error and leaves opacity
\* as it was (the value is not clamped into the range).
C7_OpacityInUnitRange ==
    /\ Init => \A i \in Layers : opacity[i] = 6
    /\ [](\A i \in Layers : 0 <= opacity[i] /\ opacity[i] <= 10)
    /\ [][\A v \in OpacityInputs :
             (SetOpacity("h", v) /\ (v[1] < 0 \/ v[1] > 10)) =>
                 (raised' = "TraitError" /\ opacity' = opacity)]_vars

\* An out-of-range opacity was rejected after opacity was set to 1.
C7_Witness ==
    /\ opacity["h"] = 10
    /\ raised = "TraitError"
    /\ gradient["h"] # None

\* The fields of layer j other than data and data_bounds.
OptionsOf(j) ==
    <<max_intensity[j], point_radius[j], dissipating[j], opacity[j],
      gradient[j]>>

\* Every field of layer j.
FieldsOf(j) == <<data[j], data_bounds[j], OptionsOf(j)>>

\* C10: an option assignment, accepted or rejected, changes neither data
\* nor data_bounds nor any other option; a data assignment on one layer
\* changes no field of the other layer.
C10_OptionsAndLayersApart ==
    [][/\ \A v \in MaxIntensityInputs : SetMaxIntensity("h", v) =>
             /\ <<data, data_bounds>>' = <<data, data_bounds>>
             /\ <<point_radius, dissipating, opacity, gradient>>'
                   = <<point_radius, dissipating, opacity, gradient>>
       /\ \A v \in PointRadiusInputs : SetPointRadius("h", v) =>
             /\ <<data, data_bounds>>' = <<data, data_bounds>>
             /\ <<max_intensity, dissipating, opacity, gradient>>'
                   = <<max_intensity, dissipating, opacity, gradient>>
       /\ \A v \in BOOLEAN : SetDissipating("h", v) =>
             /\ <<data, data_bounds>>' = <<data, data_bounds>>
             /\ <<max_intensity, point_radius, opacity, gradient>>'
                   = <<max_intensity, point_radius, opacity, gradient>>
       /\ \A v \in OpacityInputs : SetOpacity("h", v) =>
             /\ <<data, data_bounds>>' = <<data, data_bounds>>
             /\ <<max_intensity, point_radius, dissipating, gradient>>'
                   = <<max_intensity, point_radius, dissipating, gradient>>
       /\ \A v \in GradientInputs : SetGradient("h", v) =>
             /\ <<data, data_bounds>>' = <<data, data_bounds>>
             /\ <<max_intensity, point_radius, dissipating, opacity>>'
                   = <<max_intensity, point_radius, dissipating, opacity>>
       /\ \A i \in Layers : \A v \in DataInputsAll(i) : SetData(i, v) =>
             \A j \in Layers \ {i} : FieldsOf(j)' = FieldsOf(j)]_vars

\* The Heatmap holds data and changed options while the WeightedHeatmap
\* beside it is as constructed.
C10_Witness ==
    /\ data["h"] # <<>> /\ data_bounds["h"] = set_bounds(data["h"])
    /\ max_intensity["h"] = Some(2) /\ point_radius["h"] = Some(3)
    /\ opacity["h"] = 10 /\ gradient["h"] # None
    /\ FieldsOf("w") = <<<<>>, <<>>, <<None, None, TRUE, 6, None>>>>

----------------------------------------------------------------------------
\* C8, as claimed: assigning to data the valid sequence it already holds
\* recomputes data_bounds, which is then the bounds the first assignment
\* of that sequence produced, also when data_bounds was changed since.
C8_ReassignRecomputes ==
    [][\A i \in Layers :
          (data[i] # <<>> /\ SetData(i, data[i])) =>
              data_bounds'[i] = set_bounds(data[i])]_vars

\* C8, amended: assigning to data the valid sequence it already holds
\* changes neither data nor data_bounds, nothing being recomputed: the
\* bounds are those of the first assignment if and only if they were so
\* before the reassignment.
C8_ReassignChangesNothing ==
    [][\A i \in Layers :
          SetData(i, data[i]) =>
              /\ raised' = "none"
              /\ data' = data /\ data_bounds' = data_bounds
              /\ (data[i] # <<>> =>
                    ((data_bounds'[i] = set_bounds(data[i]))
                       <=> (data_bounds[i] = set_bounds(data[i]))))]_vars

\* Both layers hold data, and data_bounds of both was changed since.
C8_Witness ==
    /\ raised = "none"
    /\ \A i \in Layers :
          /\ Len(data[i]) = 2
          /\ data_bounds[i] # set_bounds(data[i])

----------------------------------------------------------------------------
\* The (latitude, longitude) pairs of a sequence of triples.
Pairs(v) == [k \in DOMAIN v |-> <<v[k][1], v[k][2]>>]

WeightsNonNegative(v) == \A k \in DOMAIN v : v[k][3] >= 0

\* The sequences of SpecWeighted with a triple out of range.
OutOfRangeWeightInputs == {v \in WeightInputs : HasOutOfRange(v)}

\* C9: for the WeightedHeatmap only the first two components of a triple
\* count.  A sequence with a triple out of range is rejected whatever the
\* weights, and no other sequence is; when data changes to a non-empty
\* sequence with weights >= 0, data_bounds becomes the exact bounds of its
\* pairs alone, so that two such sequences with the same pairs produce the
\* same data_bounds.
C9_WeightsIgnored ==
    [][/\ \A v \in OutOfRangeWeightInputs :
             SetData("w", v) => raised' = "InvalidPointException"
       /\ raised' = "InvalidPointException" =>
             \A v \in WeightInputs : SetData("w", v) => HasOutOfRange(v)
       /\ (/\ SetData("w", data'["w"])
           /\ data'["w"] # data["w"] /\ data'["w"] # <<>>
           /\ WeightsNonNegative(data'["w"])) =>
             /\ raised' = "none"
             /\ ExactBounds(data_bounds'["w"], Pairs(data'["w"]))
             /\ (Pairs(data'["w"]) = Pairs(data["w"]) /\ BoundsCurrent("w"))
                   => data_bounds'["w"] = data_bounds["w"]]_vars

\* The data holds the point with weight 0.2, and the bounds are the point.
C9_Witness ==
    /\ data["w"] = << <<461, 52, 2>>, <<461, 52, 5>> >>
    /\ data_bounds["w"] = << <<461, 52>>, <<461, 52>> >>
    /\ raised = "InvalidPointException"

----------------------------------------------------------------------------
\* C5, as claimed: assigning a non-empty sequence of points in range
\* succeeds (an assignment the invalid-point error ends is never of such a
\* sequence), and data_bounds is then ((minLat, minLon), (maxLat, maxLon)):
\* the least and greatest latitude, and the smallest enclosing span of
\* longitudes.
C5_AssignGivesExactBounds ==
    [][/\ raised' = "InvalidPointException" =>
             \A v \in InRangeInputs : ~SetData("h", v)
       /\ (data'["h"] # <<>> /\ SetData("h", data'["h"])) =>
             /\ raised' = "none"
             /\ ExactBounds(data_bounds'["h"], data'["h"])]_vars

\* C5, amended: assigning a non-empty sequence of points in range
\* succeeds, and unless it is the sequence data already holds, in which
\* case data_bounds is left as it is, data_bounds is then the exact
\* bounds; the example's three points give ((46.1, 5.2), (46.3, 5.4)).
C5_NewDataGivesExactBounds ==
    [][/\ raised' = "InvalidPointException" =>
             \A v \in InRangeInputs : ~SetData("h", v)
       /\ (data'["h"] # <<>> /\ SetData("h", data'["h"])) =>
             /\ raised' = "none"
             /\ data'["h"] = data["h"] => data_bounds' = data_bounds
             /\ data'["h"] # data["h"] =>
                   ExactBounds(data_bounds'["h"], data'["h"])
             /\ (/\ data'["h"] # data["h"]
                 /\ data'["h"] = << <<461, 52>>, <<462, 53>>, <<463, 54>> >>)
                   => data_bounds'["h"] = << <<461, 52>>, <<463, 54>> >>]_vars

\* The example's data and bounds.
C5_Witness ==
    /\ data["h"] = << <<461, 52>>, <<462, 53>>, <<463, 54>> >>
    /\ data_bounds["h"] = << <<461, 52>>, <<463, 54>> >>
    /\ raised = "none"

\* C6: the longitude bounds a data assignment stores are the circular
\* interval of least width holding every longitude of the data; for
\* longitudes 179 and -179 it runs from 179 east to -179, 2 degrees wide
\* across the antimeridian, and not from -179 to 179, 358 degrees wide.
C6_LongitudeSpanLeast ==
    [][(data'["h"] # <<>> /\ data'["h"] # data["h"]) =>
          LET lo == data_bounds'["h"][1][2]
              hi == data_bounds'["h"][2][2]
              L  == Longitudes(data'["h"])
          IN  /\ SmallestSpan(lo, hi, L)
              /\ L = {1790, -1790} =>
                    /\ lo = 1790 /\ hi = -1790
                    /\ LonWidth(lo, hi) = 20
                    /\ LonWidth(lo, hi) # 3580]_vars

\* Points at 179 E and 179 W, and the span across the antimeridian.
C6_Witness ==
    /\ Longitudes(data["h"]) = {1790, -1790}
    /\ data_bounds["h"] = << <<0, 1790>>, <<0, -1790>> >>

====
